---- MODULE Spec2Model ----
(***************************************************************************)
(* Admission analyzer: the list reconciler (upsert_competition_list), the  *)
(* /clear route, the read queries and the allocation engine                *)
(* (compute_admission), modelled from src/admission_core.py and src/app.py.*)
(*                                                                         *)
(* Spec      : the record store under uploads and clears, one SQL          *)
(*             statement per step, with store failures and rollback.       *)
(* SpecRead  : the same store with the read queries running beside the     *)
(*             write transaction.                                          *)
(* SpecConc  : two upload calls made at once.                              *)
(* SpecAlloc : compute_admission as a function of its input rows.          *)
(***************************************************************************)
EXTENDS Integers, Sequences, FiniteSets, TLC

(***************************************************************************)
(* Configuration (admission_core.py:24-25)                                 *)
(***************************************************************************)
PROGRAMS == <<"PM", "IVT", "ITSS", "IB">>

SEATS == [PM |-> 40, IVT |-> 50, ITSS |-> 30, IB |-> 20]

\* Optional[int]: Python's None is a value of its own, equal to no int.
None == [kind |-> "None", v |-> 0]

PyInt(v) == [kind |-> "int", v |-> v]

(***************************************************************************)
(* The allocation engine: compute_admission (admission_core.py:226-258).   *)
(* rows is a sequence of records [id, program, priority, consent, total].  *)
(***************************************************************************)
ProgramSet == {PROGRAMS[k] : k \in 1..Len(PROGRAMS)}

\* no consent filter: every application takes part
AllRows(rs) == rs

\* df = df[df["consent"] == 1]
Consenting(rs) == SelectSeq(rs, LAMBDA r : r.consent = 1)

\* the keys of apps and of scores
Applicants(df) == {df[k].id : k \in 1..Len(df)}

\* apps[aid] after the loop of lines 238-241: (priority, program) in row order
AppsOf(df, aid) ==
    LET mine == SelectSeq(df, LAMBDA r : r.id = aid)
    IN [k \in 1..Len(mine) |-> <<mine[k].priority, mine[k].program>>]

\* scores[aid]: the total of the last row of aid
ScoreOf(df, aid) ==
    LET ks == {k \in 1..Len(df) : df[k].id = aid}
    IN df[CHOOSE k \in ks : \A j \in ks : j <= k].total

\* sorted(apps[aid], key=lambda t: t[0]): stable, equal priorities keep row order
RECURSIVE InsertByPriority(_, _)
InsertByPriority(sorted, t) ==
    IF sorted = <<>> THEN <<t>>
    ELSE IF sorted[Len(sorted)][1] <= t[1] THEN Append(sorted, t)
    ELSE Append(InsertByPriority(SubSeq(sorted, 1, Len(sorted) - 1), t), sorted[Len(sorted)])

RECURSIVE SortedByPriority(_)
SortedByPriority(ts) ==
    IF ts = <<>> THEN <<>>
    ELSE InsertByPriority(SortedByPriority(SubSeq(ts, 1, Len(ts) - 1)), ts[Len(ts)])

\* apps[aid] without the sort of line 244: the programs in row order
PreferencesInRowOrder(df, aid) ==
    LET ts == AppsOf(df, aid)
    IN [k \in 1..Len(ts) |-> ts[k][2]]

\* apps[aid] after line 244: the programs, most preferred first
Preferences(df, aid) ==
    LET ts == SortedByPriority(AppsOf(df, aid))
    IN [k \in 1..Len(ts) |-> ts[k][2]]

\* applicants taken in the order of their ids, whatever their scores
RECURSIVE OrderById(_)
OrderById(pairs) ==
    IF pairs = {} THEN <<>>
    ELSE LET first == CHOOSE x \in pairs : \A y \in pairs : x[2] <= y[2]
         IN <<first[2]>> \o OrderById(pairs \ {first})

\* sorted(..., key=lambda i: (-scores[i], i)) over pairs <<scores[i], i>>
RECURSIVE OrderOf(_)
OrderOf(pairs) ==
    IF pairs = {} THEN <<>>
    ELSE LET first == CHOOSE x \in pairs : \A y \in pairs :
                         \/ x[1] > y[1]
                         \/ x[1] = y[1] /\ x[2] <= y[2]
         IN <<first[2]>> \o OrderOf(pairs \ {first})

\* order = sorted(scores.keys(), key=lambda i: (-scores[i], i))
Order(df) == OrderOf({<<ScoreOf(df, a), a>> : a \in Applicants(df)})

\* a seat test that is off by one: len(accepted[prog]) <= SEATS[prog]
RECURSIVE FirstFreeOffByOne(_, _)
FirstFreeOffByOne(accepted, prefs) ==
    IF prefs = <<>> THEN [kind |-> "none", prog |-> ""]
    ELSE IF Head(prefs) \notin ProgramSet THEN [kind |-> "KeyError", prog |-> Head(prefs)]
    ELSE IF Len(accepted[Head(prefs)]) <= SEATS[Head(prefs)]
         THEN [kind |-> "seat", prog |-> Head(prefs)]
         ELSE FirstFreeOffByOne(accepted, Tail(prefs))

\* the inner loop of lines 250-253 for one applicant: the first program of prefs
\* with a free seat; accepted[prog] of a program outside PROGRAMS is a KeyError
RECURSIVE FirstFree(_, _)
FirstFree(accepted, prefs) ==
    IF prefs = <<>> THEN [kind |-> "none", prog |-> ""]
    ELSE IF Head(prefs) \notin ProgramSet THEN [kind |-> "KeyError", prog |-> Head(prefs)]
    ELSE IF Len(accepted[Head(prefs)]) < SEATS[Head(prefs)]
         THEN [kind |-> "seat", prog |-> Head(prefs)]
         ELSE FirstFree(accepted, Tail(prefs))

\* the loop without its break: a seat in every listed program that has one free
RECURSIVE TakeEvery(_, _, _)
TakeEvery(accepted, prefs, aid) ==
    IF prefs = <<>> THEN accepted
    ELSE IF Head(prefs) \in ProgramSet /\ Len(accepted[Head(prefs)]) < SEATS[Head(prefs)]
         THEN TakeEvery([accepted EXCEPT ![Head(prefs)] = Append(@, aid)], Tail(prefs), aid)
         ELSE TakeEvery(accepted, Tail(prefs), aid)

RECURSIVE AssignNoBreak(_, _, _, _)
AssignNoBreak(df, order, k, accepted) ==
    IF k > Len(order) THEN [error |-> FALSE, accepted |-> accepted]
    ELSE AssignNoBreak(df, order, k + 1,
                       TakeEvery(accepted, Preferences(df, order[k]), order[k]))

\* the loop of lines 249-253 over order[k..]
RECURSIVE Assign(_, _, _, _)
Assign(df, order, k, accepted) ==
    IF k > Len(order) THEN [error |-> FALSE, accepted |-> accepted]
    ELSE LET f == FirstFree(accepted, Preferences(df, order[k]))
         IN IF f.kind = "KeyError" THEN [error |-> TRUE, accepted |-> accepted]
            ELSE IF f.kind = "seat"
                 THEN Assign(df, order, k + 1,
                             [accepted EXCEPT ![f.prog] = Append(@, order[k])])
                 ELSE Assign(df, order, k + 1, accepted)

NoneAccepted == [p \in ProgramSet |-> <<>>]

\* the cutoff read from the first admitted applicant instead of the last
CutoffOfFirst(df, accepted, p) ==
    IF Len(accepted[p]) < SEATS[p] THEN None
    ELSE PyInt(ScoreOf(df, accepted[p][1]))

\* lines 255-257
Cutoff(df, accepted, p) ==
    IF Len(accepted[p]) < SEATS[p] THEN None
    ELSE PyInt(ScoreOf(df, accepted[p][Len(accepted[p])]))

\* what a call returns: the pair (accepted, cut), or the exception it raised
Outcome(status, accepted, cut) == [status |-> status, accepted |-> accepted, cut |-> cut]

NoResult == Outcome("none", NoneAccepted, [p \in ProgramSet |-> None])

compute_admission(rs) ==
    IF rs = <<>>
    THEN Outcome("ok", NoneAccepted, [p \in ProgramSet |-> None])
    ELSE LET df == Consenting(rs)
             a == Assign(df, Order(df), 1, NoneAccepted)
         IN IF a.error
            THEN Outcome("KeyError", NoneAccepted, [p \in ProgramSet |-> None])
            ELSE Outcome("ok", a.accepted,
                         [p \in ProgramSet |-> Cutoff(df, a.accepted, p)])

(***************************************************************************)
(* Bounds of the model                                                     *)
(***************************************************************************)
\* loads.id is AUTOINCREMENT and never reused: uploads begin while it is below
MaxLoads == 2
\* datetime.now() at one-second resolution takes the values 0..MaxClock
MaxClock == 1
\* the largest number of applicants beyond the seats of IB in an allocation input
MaxOver == 1

(***************************************************************************)
(* Upload batches: a DataFrame is its set of columns and its rows; a cell  *)
(* is an integer, a float (v + 0.5) or a non-numeric string.               *)
(***************************************************************************)
required == <<"id", "consent", "priority", "phys", "rus", "math", "indiv", "total">>

RequiredSet == {required[k] : k \in 1..Len(required)}

IntCell(v) == [kind |-> "int", v |-> v]
FloatCell(v) == [kind |-> "float", v |-> v]
StrCell == [kind |-> "str", v |-> 0]

\* numpy's astype(int) on one cell: an int stays, a float is truncated toward
\* zero (the float cell v stands for v + 0.5), a non-numeric string raises
\* ValueError.
Coercible(c) == c.kind \in {"int", "float"}
AsInt(c) == IF c.kind = "float" /\ c.v < 0 THEN c.v + 1 ELSE c.v

\* missing = [c for c in required if c not in df.columns]
MissingColumns(df) == {c \in RequiredSet : c \notin df.columns}

\* a normalizer that checks the columns but coerces with errors ignored
NormalizeUnchecked(df) ==
    IF MissingColumns(df) # {}
    THEN [ok |-> FALSE, rows |-> <<>>]
    ELSE [ok |-> TRUE,
          rows |-> [k \in 1..Len(df.rows) |->
                      [c \in RequiredSet |-> AsInt(df.rows[k][c])]]]

\* _normalize_df: the missing columns, then the coercion of every required cell.
_normalize_df(df) ==
    IF MissingColumns(df) # {}
    THEN [ok |-> FALSE, rows |-> <<>>]
    ELSE IF \E k \in 1..Len(df.rows) : \E c \in RequiredSet : ~Coercible(df.rows[k][c])
         THEN [ok |-> FALSE, rows |-> <<>>]
         ELSE [ok |-> TRUE,
               rows |-> [k \in 1..Len(df.rows) |->
                           [c \in RequiredSet |-> AsInt(df.rows[k][c])]]]

(***************************************************************************)
(* The batches and keys the uploads are drawn from                         *)
(***************************************************************************)
Row(id, consent, priority, phys, rus, math, indiv, total) ==
    [id |-> IntCell(id), consent |-> IntCell(consent), priority |-> IntCell(priority),
     phys |-> IntCell(phys), rus |-> IntCell(rus), math |-> IntCell(math),
     indiv |-> IntCell(indiv), total |-> IntCell(total)]

\* two score lines an applicant may be reported with
RowA(id, consent, priority) == Row(id, consent, priority, 70, 80, 60, 5, 215)
RowB(id, consent, priority) == Row(id, consent, priority, 65, 80, 60, 3, 208)

Frame(rs) == [columns |-> RequiredSet \cup {"day"}, rows |-> rs]

ValidBatches ==
    { Frame(<<>>),
      Frame(<<RowA(1, 1, 1), RowB(2, 0, 2)>>),
      Frame(<<RowB(2, 1, 1), RowB(3, 0, 1), RowA(3, 1, 2)>>),
      Frame(<<[RowB(1, 0, 2) EXCEPT !.indiv = FloatCell(3)]>>) }

InvalidBatches ==
    { [columns |-> RequiredSet \ {"total"}, rows |-> <<RowA(1, 1, 1)>>],
      Frame(<<RowA(1, 1, 1), [RowA(2, 1, 1) EXCEPT !.priority = StrCell]>>) }

Batches == ValidBatches \cup InvalidBatches

Days == {"2024-08-01", "2024-08-02"}

\* upload() passes the form's program on unchecked: "XX" is not in PROGRAMS
UploadKeys ==
    { <<"2024-08-01", "PM">>, <<"2024-08-02", "PM">>, <<"2024-08-01", "XX">> }

(***************************************************************************)
(* The record store (SCHEMA_SQL) and the SQL statements                    *)
(***************************************************************************)
VARIABLES
    applicants,     \* committed rows of table applicants
    applications,   \* committed rows of table applications
    loads,          \* committed rows of table loads
    load_seq,       \* committed AUTOINCREMENT counter of loads.id
    con,            \* the open write transaction: position, arguments, its view
    last,           \* the request that returned last, none while one is running
    rows,           \* the argument of compute_admission
    result,         \* what compute_admission returned for rows
    read,           \* the read request that runs or returned last, and what it saw
    waiting         \* a second upload call, blocked on the write lock of the database

store_vars == <<applicants, applications, loads, load_seq, con, last>>

alloc_vars == <<rows, result>>

\* what a step of the write transaction leaves alone
other_vars == <<rows, result, read, waiting>>

vars == <<applicants, applications, loads, load_seq, con, last, rows, result,
          read, waiting>>

\* The four tables as one value.
Store(a, b, c, d) == [applicants |-> a, applications |-> b, loads |-> c, seq |-> d]

Committed == Store(applicants, applications, loads, load_seq)

EmptyStore == Store({}, {}, {}, 0)

\* INSERT INTO loads(day, program, loaded_at)
InsertLoad(s, d, p, t) ==
    [s EXCEPT !.loads = @ \cup {[id |-> s.seq + 1, day |-> d, program |-> p, loaded_at |-> t]},
              !.seq = @ + 1]

\* INSERT INTO applicants ... ON CONFLICT(id) DO NOTHING: stored scores are kept
InsertApplicantIfNew(s, r) ==
    IF \E x \in s.applicants : x.id = r.id THEN s
    ELSE [s EXCEPT !.applicants =
            @ \cup {[id |-> r.id, phys |-> r.phys, rus |-> r.rus, math |-> r.math,
                     indiv |-> r.indiv, total |-> r.total]}]

\* INSERT INTO applicants ... ON CONFLICT(id) DO UPDATE SET all five scores
UpsertApplicant(s, r) ==
    [s EXCEPT !.applicants =
        {x \in @ : x.id # r.id}
        \cup {[id |-> r.id, phys |-> r.phys, rus |-> r.rus, math |-> r.math,
               indiv |-> r.indiv, total |-> r.total]}]

\* SELECT applicant_id FROM applications WHERE day=:d AND program=:p
SelectIds(s, d, p) ==
    {x.applicant_id : x \in {y \in s.applications : y.day = d /\ y.program = p}}

\* new_ids = set(df["id"].tolist())
NewIds(rs) == {rs[k].id : k \in 1..Len(rs)}

\* a delete that also drops the applicants whose application it deletes
DeleteApplicationsAndApplicants(s, d, p, ids) ==
    [s EXCEPT !.applications =
                {x \in @ : ~(x.day = d /\ x.program = p /\ x.applicant_id \in ids)},
              !.applicants = {a \in @ : a.id \notin ids}]

\* DELETE FROM applications WHERE day=:d AND program=:p AND applicant_id IN (...)
DeleteApplications(s, d, p, ids) ==
    [s EXCEPT !.applications =
        {x \in @ : ~(x.day = d /\ x.program = p /\ x.applicant_id \in ids)}]

\* an upsert whose conflict target leaves the program out: (day, applicant_id)
UpsertApplicationAnyProgram(s, d, p, r, t) ==
    [s EXCEPT !.applications =
        {x \in @ : ~(x.day = d /\ x.applicant_id = r.id)}
        \cup {[day |-> d, program |-> p, applicant_id |-> r.id,
               consent |-> r.consent, priority |-> r.priority, loaded_at |-> t]}]

\* INSERT INTO applications ... ON CONFLICT DO NOTHING: a stored row is kept as it is
InsertApplicationIfNew(s, d, p, r, t) ==
    IF \E x \in s.applications : x.day = d /\ x.program = p /\ x.applicant_id = r.id
    THEN s
    ELSE [s EXCEPT !.applications =
            @ \cup {[day |-> d, program |-> p, applicant_id |-> r.id,
                     consent |-> r.consent, priority |-> r.priority, loaded_at |-> t]}]

\* INSERT INTO applications ... ON CONFLICT(day, program, applicant_id) DO UPDATE
UpsertApplication(s, d, p, r, t) ==
    [s EXCEPT !.applications =
        {x \in @ : ~(x.day = d /\ x.program = p /\ x.applicant_id = r.id)}
        \cup {[day |-> d, program |-> p, applicant_id |-> r.id,
               consent |-> r.consent, priority |-> r.priority, loaded_at |-> t]}]

\* a reconciler that only adds: nothing is ever absent
ToDeleteNothing(old_ids, new_ids) == {}

\* to_delete = old_ids - new_ids
ToDelete(old_ids, new_ids) == old_ids \ new_ids

\* engine.begin().__exit__: COMMIT publishes the transaction's view,
\* ROLLBACK leaves the tables as they were when it began.
Commit(committed, view) == view

\* a rollback that leaves the log entry of the failed upload behind
RollbackKeepsLoads(committed, view) ==
    [committed EXCEPT !.loads = view.loads, !.seq = view.seq]

Rollback(committed, view) == committed

\* the loop of lines 99-117 over the rows from k on
RECURSIVE UpsertApplicants(_, _, _)
UpsertApplicants(s, rs, k) ==
    IF k > Len(rs) THEN s ELSE UpsertApplicants(UpsertApplicant(s, rs[k]), rs, k + 1)

\* the loop of lines 143-156 over the rows from k on
RECURSIVE UpsertApplications(_, _, _, _, _, _)
UpsertApplications(s, d, p, rs, t, k) ==
    IF k > Len(rs) THEN s
    ELSE UpsertApplications(UpsertApplication(s, d, p, rs[k], t), d, p, rs, t, k + 1)

\* the statements of one call, lines 93-156, run on store s without interruption
upsert_competition_list(s, d, p, rs, t) ==
    LET s1 == UpsertApplicants(InsertLoad(s, d, p, t), rs, 1)
        to_delete == ToDelete(SelectIds(s1, d, p), NewIds(rs))
        s2 == IF to_delete # {} THEN DeleteApplications(s1, d, p, to_delete) ELSE s1
    IN UpsertApplications(s2, d, p, rs, t, 1)

(***************************************************************************)
(* Requests.  upsert_competition_list and clear each run one transaction;  *)
(* every SQL statement is a step, and any statement may fail.              *)
(***************************************************************************)
Idle ==
    [pc |-> "idle", day |-> "", program |-> "", df |-> Frame(<<>>), rows |-> <<>>,
     now |-> 0, i |-> 0, old_ids |-> {}, view |-> EmptyStore, again |-> FALSE]

NoRequest ==
    [op |-> "none", day |-> "", program |-> "", df |-> Frame(<<>>), outcome |-> "none",
     again |-> FALSE]

\* again: the request before this one was the same upload, and it committed
Returned(op, d, p, df, outcome, again) ==
    [op |-> op, day |-> d, program |-> p, df |-> df, outcome |-> outcome, again |-> again]

\* accepted_pr_counts = {(p, pr): 0 for p in PROGRAMS for pr in (1, 2, 3, 4)}
Priorities == 1..4

ZeroCounts == [k \in ProgramSet \X Priorities |-> 0]

\* no read request has run
NoRead ==
    [op |-> "none", pc |-> "returned", day |-> "", program |-> "", consent |-> None,
     sort |-> "", status |-> "none", list |-> <<>>, appl_map |-> {},
     counts |-> ZeroCounts, seen |-> EmptyStore, steady |-> TRUE]

\* no call is blocked
NoCall ==
    [pc |-> "none", day |-> "", program |-> "", df |-> Frame(<<>>), rows |-> <<>>,
     now |-> 0, seen |-> EmptyStore]

SameAsLast(d, p, df) ==
    /\ last.op = "upload" /\ last.outcome = "ok"
    /\ last.day = d /\ last.program = p /\ last.df = df

Init ==
    /\ applicants = {}
    /\ applications = {}
    /\ loads = {}
    /\ load_seq = 0
    /\ con = Idle
    /\ last = NoRequest
    /\ rows = <<>>
    /\ result = NoResult
    /\ read = NoRead
    /\ waiting = NoCall

\* datetime.now() reads the local wall clock, which may stand, advance or be
\* set back between two calls
Now == 0..MaxClock

\* upsert_competition_list, line 89: _normalize_df raises before engine.begin()
UpsertRejected(d, p, df) ==
    /\ con.pc = "idle"
    /\ ~_normalize_df(df).ok
    /\ last' = Returned("upload", d, p, df, "ValueError", FALSE)
    /\ UNCHANGED <<applicants, applications, loads, load_seq, con>>
    /\ UNCHANGED other_vars

\* lines 89-92: the batch is normalized, now is read, the transaction begins
UpsertBegin(d, p, df, t) ==
    /\ con.pc = "idle"
    /\ load_seq < MaxLoads
    /\ _normalize_df(df).ok
    /\ con' = [pc |-> "insert_load", day |-> d, program |-> p, df |-> df,
               rows |-> _normalize_df(df).rows, now |-> t, i |-> 1,
               old_ids |-> {}, view |-> Committed, again |-> SameAsLast(d, p, df)]
    /\ last' = NoRequest
    /\ UNCHANGED <<applicants, applications, loads, load_seq>>
    /\ UNCHANGED other_vars

\* lines 93-96
UpsertInsertLoad ==
    /\ con.pc = "insert_load"
    /\ con' = [con EXCEPT !.view = InsertLoad(@, con.day, con.program, con.now),
                          !.pc = IF Len(con.rows) = 0 THEN "select_old" ELSE "upsert_applicants",
                          !.i = 1]
    /\ UNCHANGED <<applicants, applications, loads, load_seq, last>>
    /\ UNCHANGED other_vars

\* lines 99-117, one row
UpsertApplicantRow ==
    /\ con.pc = "upsert_applicants"
    /\ con' = [con EXCEPT !.view = UpsertApplicant(@, con.rows[con.i]),
                          !.pc = IF con.i = Len(con.rows) THEN "select_old" ELSE @,
                          !.i = IF con.i = Len(con.rows) THEN 1 ELSE @ + 1]
    /\ UNCHANGED <<applicants, applications, loads, load_seq, last>>
    /\ UNCHANGED other_vars

\* lines 120-127
UpsertSelectOld ==
    /\ con.pc = "select_old"
    /\ con' = [con EXCEPT !.old_ids = SelectIds(con.view, con.day, con.program),
                          !.pc = "delete_absent"]
    /\ UNCHANGED <<applicants, applications, loads, load_seq, last>>
    /\ UNCHANGED other_vars

\* lines 130-140
UpsertDeleteAbsent ==
    /\ con.pc = "delete_absent"
    /\ LET to_delete == ToDelete(con.old_ids, NewIds(con.rows))
       IN con' = [con EXCEPT
                    !.view = IF to_delete # {}
                             THEN DeleteApplications(@, con.day, con.program, to_delete)
                             ELSE @,
                    !.pc = IF Len(con.rows) = 0 THEN "commit" ELSE "upsert_applications",
                    !.i = 1]
    /\ UNCHANGED <<applicants, applications, loads, load_seq, last>>
    /\ UNCHANGED other_vars

\* lines 143-156, one row
UpsertApplicationRow ==
    /\ con.pc = "upsert_applications"
    /\ con' = [con EXCEPT
                 !.view = UpsertApplication(@, con.day, con.program, con.rows[con.i], con.now),
                 !.pc = IF con.i = Len(con.rows) THEN "commit" ELSE @,
                 !.i = IF con.i = Len(con.rows) THEN 1 ELSE @ + 1]
    /\ UNCHANGED <<applicants, applications, loads, load_seq, last>>
    /\ UNCHANGED other_vars

\* leaving "with engine.begin()" normally: COMMIT, and the call returns
UpsertCommit ==
    /\ con.pc = "commit"
    /\ LET s == Commit(Committed, con.view)
       IN /\ applicants' = s.applicants
          /\ applications' = s.applications
          /\ loads' = s.loads
          /\ load_seq' = s.seq
    /\ last' = Returned("upload", con.day, con.program, con.df, "ok", con.again)
    /\ con' = Idle
    /\ UNCHANGED other_vars

UploadPositions ==
    {"insert_load", "upsert_applicants", "select_old", "delete_absent",
     "upsert_applications", "commit"}

\* the statement at the current position (or the COMMIT) raises: ROLLBACK,
\* and the exception leaves upsert_competition_list
UpsertFail ==
    /\ con.pc \in UploadPositions
    /\ LET s == Rollback(Committed, con.view)
       IN /\ applicants' = s.applicants
          /\ applications' = s.applications
          /\ loads' = s.loads
          /\ load_seq' = s.seq
    /\ last' = Returned("upload", con.day, con.program, con.df, "StoreError", con.again)
    /\ con' = Idle
    /\ UNCHANGED other_vars

(***************************************************************************)
(* The /clear route (app.py:381-389)                                       *)
(***************************************************************************)
\* a clear that forgets the applications table
ClearApplicationsSkipped(s) == s

\* DELETE FROM applications
ClearApplications(s) == [s EXCEPT !.applications = {}]

\* DELETE FROM applicants
ClearApplicants(s) == [s EXCEPT !.applicants = {}]

\* DELETE FROM loads (the AUTOINCREMENT counter is kept in sqlite_sequence)
ClearLoads(s) == [s EXCEPT !.loads = {}]

ClearBegin ==
    /\ con.pc = "idle"
    /\ con' = [Idle EXCEPT !.pc = "clear_applications", !.view = Committed]
    /\ last' = NoRequest
    /\ UNCHANGED <<applicants, applications, loads, load_seq>>
    /\ UNCHANGED other_vars

ClearDeleteApplications ==
    /\ con.pc = "clear_applications"
    /\ con' = [con EXCEPT !.view = ClearApplications(@), !.pc = "clear_applicants"]
    /\ UNCHANGED <<applicants, applications, loads, load_seq, last>>
    /\ UNCHANGED other_vars

ClearDeleteApplicants ==
    /\ con.pc = "clear_applicants"
    /\ con' = [con EXCEPT !.view = ClearApplicants(@), !.pc = "clear_loads"]
    /\ UNCHANGED <<applicants, applications, loads, load_seq, last>>
    /\ UNCHANGED other_vars

ClearDeleteLoads ==
    /\ con.pc = "clear_loads"
    /\ con' = [con EXCEPT !.view = ClearLoads(@), !.pc = "clear_commit"]
    /\ UNCHANGED <<applicants, applications, loads, load_seq, last>>
    /\ UNCHANGED other_vars

ClearCommit ==
    /\ con.pc = "clear_commit"
    /\ LET s == Commit(Committed, con.view)
       IN /\ applicants' = s.applicants
          /\ applications' = s.applications
          /\ loads' = s.loads
          /\ load_seq' = s.seq
    /\ last' = Returned("clear", "", "", Frame(<<>>), "ok", FALSE)
    /\ con' = Idle
    /\ UNCHANGED other_vars

ClearPositions == {"clear_applications", "clear_applicants", "clear_loads", "clear_commit"}

ClearFail ==
    /\ con.pc \in ClearPositions
    /\ LET s == Rollback(Committed, con.view)
       IN /\ applicants' = s.applicants
          /\ applications' = s.applications
          /\ loads' = s.loads
          /\ load_seq' = s.seq
    /\ last' = Returned("clear", "", "", Frame(<<>>), "StoreError", FALSE)
    /\ con' = Idle
    /\ UNCHANGED other_vars

Next ==
    \/ \E k \in UploadKeys, df \in Batches : UpsertRejected(k[1], k[2], df)
    \/ \E k \in UploadKeys, df \in Batches, t \in Now : UpsertBegin(k[1], k[2], df, t)
    \/ UpsertInsertLoad
    \/ UpsertApplicantRow
    \/ UpsertSelectOld
    \/ UpsertDeleteAbsent
    \/ UpsertApplicationRow
    \/ UpsertCommit
    \/ UpsertFail
    \/ ClearBegin
    \/ ClearDeleteApplications
    \/ ClearDeleteApplicants
    \/ ClearDeleteLoads
    \/ ClearCommit
    \/ ClearFail

Spec == Init /\ [][Next]_vars

(***************************************************************************)
(* Reads.  Every query opens its own transaction on another connection of  *)
(* the pool and runs one SELECT; what a SELECT without ORDER BY returns is *)
(* its rows in some order.                                                 *)
(***************************************************************************)
\* a read that sees the uncommitted work of the open write transaction
DirtySnapshot(committed, view) == view

\* what a connection other than the writer's sees when its SELECT runs: the
\* committed tables
Snapshot(committed, view) == committed

Visible == Snapshot(Committed, con.view)

\* every order the elements of S may come in
RECURSIVE Orderings(_)
Orderings(S) ==
    IF S = {} THEN {<<>>}
    ELSE UNION {{<<x>> \o o : o \in Orderings(S \ {x})} : x \in S}

\* FROM applications a JOIN applicants b ON b.id = a.applicant_id
Joined(s) == {j \in s.applications \X s.applicants : j[2].id = j[1].applicant_id}

\* SELECT a.applicant_id AS id, a.program, a.priority, a.consent, b.total
AdmissionRow(j) ==
    [id |-> j[1].applicant_id, program |-> j[1].program, priority |-> j[1].priority,
     consent |-> j[1].consent, total |-> j[2].total]

\* the rows of compute_admission_from_db's SELECT ... WHERE a.day = :d, in every order
AdmissionRows(s, d) ==
    {[k \in 1..Len(o) |-> AdmissionRow(o[k])] :
        o \in Orderings({j \in Joined(s) : j[1].day = d})}

\* SELECT a.applicant_id AS id, a.consent, a.priority, b.phys, ..., b.total
ListRow(j) ==
    [id |-> j[1].applicant_id, consent |-> j[1].consent, priority |-> j[1].priority,
     phys |-> j[2].phys, rus |-> j[2].rus, math |-> j[2].math, indiv |-> j[2].indiv,
     total |-> j[2].total]

\* ORDER BY b.total ASC, b.id ASC | b.id ASC | b.total DESC, b.id ASC
InListOrder(x, y, sort) ==
    IF sort = "total_asc"
    THEN x.total < y.total \/ (x.total = y.total /\ x.id <= y.id)
    ELSE IF sort = "id_asc"
         THEN x.id <= y.id
         ELSE x.total > y.total \/ (x.total = y.total /\ x.id <= y.id)

\* query_program_list: the lists it may return; day "" and consent None do not filter
query_program_list(s, program, day, consent, sort) ==
    LET sel == {j \in Joined(s) :
                  /\ j[1].program = program
                  /\ day # "" => j[1].day = day
                  /\ consent \in {PyInt(0), PyInt(1)} => j[1].consent = consent.v}
        lists == {[k \in 1..Len(o) |-> ListRow(o[k])] : o \in Orderings(sel)}
    IN {l \in lists : \A i, k \in 1..Len(l) : i < k => InListOrder(l[i], l[k], sort)}

\* the limit the /cascade route passes (app.py:438)
CascadeLimit == 1000

MaxOf(S) == CHOOSE x \in S : \A y \in S : y <= x

\* one element of out: the applications of aid, merged
CascadeItem(rs, aid) ==
    LET items == SelectSeq(rs, LAMBDA r : r.id = aid)
        sorted == SortedByPriority([k \in 1..Len(items) |->
                                      <<items[k].priority, items[k].program>>])
    IN [id |-> aid,
        any_consent |-> \E k \in 1..Len(items) : items[k].consent = 1,
        max_total |-> MaxOf({items[k].total : k \in 1..Len(items)}),
        cascade |-> [k \in 1..Len(sorted) |-> <<sorted[k][2], sorted[k][1]>>]]

\* lines 206-223 on the selected rows rs
CascadeOut(rs, limit) ==
    LET order == OrderOf({<<CascadeItem(rs, a).max_total, a>> : a \in Applicants(rs)})
        out == [k \in 1..Len(order) |-> CascadeItem(rs, order[k])]
    IN \* out[:limit]: a negative limit counts from the end
       IF limit >= 0
       THEN SubSeq(out, 1, IF Len(out) < limit THEN Len(out) ELSE limit)
       ELSE SubSeq(out, 1, Len(out) + limit)

\* query_all_applicants_with_cascade: the lists it may return; day "" does not filter
query_all_applicants_with_cascade(s, day, limit) ==
    LET sel == {j \in Joined(s) : day # "" => j[1].day = day}
    IN {CascadeOut([k \in 1..Len(o) |-> AdmissionRow(o[k])], limit) : o \in Orderings(sel)}

\* _stats_for_day, lines 275-283: appl_map as the set of its items (p, pr, cnt)
ApplMap(s, d) ==
    LET sel == {a \in s.applications : a.day = d}
    IN {<<g[1], g[2], Cardinality({a \in sel : a.program = g[1] /\ a.priority = g[2]})>> :
          g \in {<<a.program, a.priority>> : a \in sel}}

\* SELECT a.program, a.priority, a.applicant_id, a.consent, b.total: no column id
StatsRow(j) ==
    [program |-> j[1].program, priority |-> j[1].priority,
     applicant_id |-> j[1].applicant_id, consent |-> j[1].consent, total |-> j[2].total]

\* the rows of q2, WHERE a.day = :d AND a.consent = 1, in every order
StatsRows(s, d) ==
    {[k \in 1..Len(o) |-> StatsRow(o[k])] :
        o \in Orderings({j \in Joined(s) : j[1].day = d /\ j[1].consent = 1})}

\* r["id"] = int(r.get("id", r.get("applicant_id")))
Recs(rs) ==
    [k \in 1..Len(rs) |->
        [id |-> rs[k].applicant_id, program |-> rs[k].program, priority |-> rs[k].priority,
         applicant_id |-> rs[k].applicant_id, consent |-> rs[k].consent,
         total |-> rs[k].total]]

\* the loop of lines 309-314 from row k on; accepted_set[prog] of a program outside
\* PROGRAMS and accepted_pr_counts[(prog, pr)] of a priority outside 1..4 are KeyErrors
RECURSIVE CountAccepted(_, _, _, _)
CountAccepted(rs, k, accepted, counts) ==
    IF k > Len(rs) THEN [error |-> FALSE, counts |-> counts]
    ELSE IF rs[k].program \notin ProgramSet THEN [error |-> TRUE, counts |-> counts]
    ELSE IF \E i \in 1..Len(accepted[rs[k].program]) :
               accepted[rs[k].program][i] = rs[k].applicant_id
         THEN IF rs[k].priority \notin Priorities
              THEN [error |-> TRUE, counts |-> counts]
              ELSE CountAccepted(rs, k + 1, accepted,
                                 [counts EXCEPT ![<<rs[k].program, rs[k].priority>>] = @ + 1])
         ELSE CountAccepted(rs, k + 1, accepted, counts)

\* lines 295-315 on the rows rs of q2
AcceptedPrCounts(rs) ==
    IF rs = <<>> THEN [status |-> "ok", counts |-> ZeroCounts]
    ELSE LET a == compute_admission(Recs(rs))
         IN IF a.status # "ok" THEN [status |-> a.status, counts |-> ZeroCounts]
            ELSE LET c == CountAccepted(rs, 1, a.accepted, ZeroCounts)
                 IN IF c.error THEN [status |-> "KeyError", counts |-> ZeroCounts]
                    ELSE [status |-> "ok", counts |-> c.counts]

(***************************************************************************)
(* Read requests                                                           *)
(***************************************************************************)
\* the queries of /list the reads are drawn from: program, day, consent, sort
ListQueries ==
    { <<"PM", "2024-08-01", None, "total_desc">>,
      <<"IB", "2024-08-01", PyInt(1), "id_asc">>,
      <<"PM", "", PyInt(0), "total_asc">> }

NoReadRuns == read.op = "none"

\* compute_admission_from_db(engine, d)
AdmissionFromDb(d) ==
    /\ NoReadRuns
    /\ \E rs \in AdmissionRows(Visible, d) :
          /\ rows' = rs
          /\ result' = compute_admission(rs)
          /\ read' = [NoRead EXCEPT !.op = "admission", !.day = d,
                                    !.status = compute_admission(rs).status]
    /\ UNCHANGED <<store_vars, waiting>>

\* query_program_list(engine, p, d, c, sort)
ProgramList(p, d, c, sort) ==
    /\ NoReadRuns
    /\ \E l \in query_program_list(Visible, p, d, c, sort) :
          read' = [NoRead EXCEPT !.op = "list", !.day = d, !.program = p, !.consent = c,
                                 !.sort = sort, !.status = "ok", !.list = l]
    /\ UNCHANGED <<store_vars, rows, result, waiting>>

\* query_all_applicants_with_cascade(engine, d, limit)
Cascade(d) ==
    /\ NoReadRuns
    /\ \E l \in query_all_applicants_with_cascade(Visible, d, CascadeLimit) :
          read' = [NoRead EXCEPT !.op = "cascade", !.day = d, !.status = "ok", !.list = l]
    /\ UNCHANGED <<store_vars, rows, result, waiting>>

\* _stats_for_day, lines 275-283: the first of its three transactions
StatsCount(d) ==
    /\ NoReadRuns
    /\ read' = [NoRead EXCEPT !.op = "stats", !.pc = "admission", !.day = d,
                              !.appl_map = ApplMap(Visible, d), !.seen = Visible]
    /\ UNCHANGED <<store_vars, rows, result, waiting>>

\* line 285: accepted, cut = compute_admission_from_db(engine, day)
StatsAdmission ==
    /\ read.op = "stats" /\ read.pc = "admission"
    /\ \E rs \in AdmissionRows(Visible, read.day) :
          /\ rows' = rs
          /\ result' = compute_admission(rs)
          /\ read' = [read EXCEPT
                        !.pc = IF compute_admission(rs).status = "ok"
                               THEN "accepted" ELSE "returned",
                        !.status = IF compute_admission(rs).status = "ok"
                                   THEN @ ELSE compute_admission(rs).status,
                        !.steady = @ /\ read.seen = Visible]
    /\ UNCHANGED <<store_vars, waiting>>

\* lines 287-317: q2, the counts, and the return
StatsAccepted ==
    /\ read.op = "stats" /\ read.pc = "accepted"
    /\ \E rs \in StatsRows(Visible, read.day) :
          read' = [read EXCEPT !.pc = "returned",
                               !.status = AcceptedPrCounts(rs).status,
                               !.counts = AcceptedPrCounts(rs).counts,
                               !.steady = @ /\ read.seen = Visible]
    /\ UNCHANGED <<store_vars, rows, result, waiting>>

\* The write transaction has executed a statement.  From then on it may hold
\* the database exclusively (its changes no longer fit the page cache and are
\* written to the file, or it is committing), and a SELECT of another
\* connection then waits for the busy timeout and raises OperationalError
\* (database is locked).  Whether it does depends on the size of the cache.
WriterHasWritten ==
    con.pc \in (UploadPositions \ {"insert_load"}) \cup (ClearPositions \ {"clear_applications"})

\* the calls a read may be: the function, and its program, day, consent and sort
ReadCalls ==
    {<<"admission", "", d, None, "">> : d \in Days}
    \cup {<<"list", q[1], q[2], q[3], q[4]>> : q \in ListQueries}
    \cup {<<"cascade", "", d, None, "">> : d \in Days \cup {""}}
    \cup {<<"stats", "", d, None, "">> : d \in Days}

\* the SELECT of a read (the first one of _stats_for_day) finds the database
\* locked: the exception leaves the function, which returns nothing
ReadLocked(op, p, d, c, sort) ==
    /\ NoReadRuns
    /\ WriterHasWritten
    /\ read' = [NoRead EXCEPT !.op = op, !.program = p, !.day = d, !.consent = c,
                              !.sort = sort, !.status = "OperationalError"]
    /\ UNCHANGED <<store_vars, rows, result, waiting>>

\* the second or third SELECT of _stats_for_day finds the database locked: the
\* exception leaves the function, and what it had computed is lost
StatsLocked ==
    /\ read.op = "stats" /\ read.pc # "returned"
    /\ WriterHasWritten
    /\ read' = [NoRead EXCEPT !.op = "stats", !.day = read.day,
                              !.status = "OperationalError"]
    /\ rows' = <<>>
    /\ result' = NoResult
    /\ UNCHANGED <<store_vars, waiting>>

\* the caller has taken the value of the read
ReadReturn ==
    /\ read.op # "none" /\ read.pc = "returned"
    /\ read' = NoRead
    /\ rows' = <<>>
    /\ result' = NoResult
    /\ UNCHANGED <<store_vars, waiting>>

\* the keys and batches the uploads are drawn from while reads run
ReadKeys == {<<"2024-08-01", "PM">>, <<"2024-08-01", "IB">>}

ReadBatches ==
    { Frame(<<RowB(1, 1, 1), RowB(2, 0, 2)>>),
      Frame(<<RowA(1, 1, 2), RowB(3, 0, 1), RowA(3, 1, 5)>>),
      Frame(<<RowB(2, 0, 1)>>) }

\* the reads return no timestamp: the uploads beside them are made at one time
ReadNow == {0}

\* _stats_for_day is between two of its three transactions
StatsRuns == read.op = "stats" /\ read.pc # "returned"

\* the writer runs while no value of a read is held, and at any point between
\* the transactions of _stats_for_day, which holds no lock across them
WriterRuns == NoReadRuns \/ StatsRuns

NextRead ==
    \/ WriterRuns /\ \E k \in ReadKeys, df \in ReadBatches, t \in ReadNow : UpsertBegin(k[1], k[2], df, t)
    \/ WriterRuns /\ UpsertInsertLoad
    \/ WriterRuns /\ UpsertApplicantRow
    \/ WriterRuns /\ UpsertSelectOld
    \/ WriterRuns /\ UpsertDeleteAbsent
    \/ WriterRuns /\ UpsertApplicationRow
    \/ WriterRuns /\ UpsertCommit
    \/ WriterRuns /\ UpsertFail
    \/ WriterRuns /\ ClearBegin
    \/ WriterRuns /\ ClearDeleteApplications
    \/ WriterRuns /\ ClearDeleteApplicants
    \/ WriterRuns /\ ClearDeleteLoads
    \/ WriterRuns /\ ClearCommit
    \/ WriterRuns /\ ClearFail
    \/ \E d \in Days : AdmissionFromDb(d)
    \/ \E q \in ListQueries : ProgramList(q[1], q[2], q[3], q[4])
    \/ \E d \in Days \cup {""} : Cascade(d)
    \/ \E d \in Days : StatsCount(d)
    \/ StatsAdmission
    \/ StatsAccepted
    \/ \E r \in ReadCalls : ReadLocked(r[1], r[2], r[3], r[4], r[5])
    \/ StatsLocked
    \/ ReadReturn

SpecRead == Init /\ [][NextRead]_vars

(***************************************************************************)
(* Two upload calls at once.  Each call has its own connection.  The       *)
(* INSERT of line 93 is the first statement of the transaction and takes   *)
(* the write lock of the database, which one connection holds at a time;   *)
(* engine.begin() takes no lock.  con is the call whose INSERT comes next  *)
(* or whose transaction holds the lock; waiting is a second call that has  *)
(* run lines 89-92 and has not executed its INSERT.                        *)
(***************************************************************************)
\* a transaction that works on the tables as they were when the call was made
StaleView(committed, seen) == seen

\* the tables a transaction sees once it holds the lock: the committed ones
BeginView(committed, seen) == committed

\* lines 89-92 of a second call, made while con's call is running: its INSERT
\* is still to come
UpsertBlocked(d, p, df, t) ==
    /\ con.pc \in UploadPositions
    /\ waiting.pc # "blocked"
    /\ _normalize_df(df).ok
    /\ waiting' = [pc |-> "blocked", day |-> d, program |-> p, df |-> df,
                   rows |-> _normalize_df(df).rows, now |-> t, seen |-> Committed]
    /\ UNCHANGED <<applicants, applications, loads, load_seq, con, last>>
    /\ UNCHANGED <<rows, result, read>>

\* the lock is free (no call runs, or con's call has not executed its INSERT):
\* the waiting call's INSERT comes first, and con's call, if any, waits instead
WaitAcquire ==
    /\ waiting.pc = "blocked"
    /\ con.pc \in {"idle", "insert_load"}
    /\ load_seq < MaxLoads
    /\ con' = [pc |-> "insert_load", day |-> waiting.day, program |-> waiting.program,
               df |-> waiting.df, rows |-> waiting.rows, now |-> waiting.now, i |-> 1,
               old_ids |-> {}, view |-> BeginView(Committed, waiting.seen),
               again |-> SameAsLast(waiting.day, waiting.program, waiting.df)]
    /\ waiting' = IF con.pc = "insert_load"
                  THEN [pc |-> "blocked", day |-> con.day, program |-> con.program,
                        df |-> con.df, rows |-> con.rows, now |-> con.now,
                        seen |-> con.view]
                  ELSE [waiting EXCEPT !.pc = "acquired"]
    /\ last' = NoRequest
    /\ UNCHANGED <<applicants, applications, loads, load_seq>>
    /\ UNCHANGED <<rows, result, read>>

\* the busy timeout expires first: OperationalError (database is locked) leaves
\* the waiting call, which has written nothing
WaitTimeout ==
    /\ waiting.pc = "blocked"
    /\ con.pc \in UploadPositions \ {"insert_load"}
    /\ waiting' = NoCall
    /\ UNCHANGED store_vars
    /\ UNCHANGED <<rows, result, read>>

\* the calls at once are calls for one key
ConcKeys == {<<"2024-08-01", "PM">>}

ConcBatches ==
    { Frame(<<RowA(1, 1, 1), RowB(2, 0, 2)>>),
      Frame(<<RowB(2, 1, 1), RowB(3, 0, 1), RowA(3, 1, 2)>>) }

NextConc ==
    \/ \E k \in ConcKeys, df \in ConcBatches, t \in Now : UpsertBegin(k[1], k[2], df, t)
    \/ \E k \in ConcKeys, df \in ConcBatches, t \in Now : UpsertBlocked(k[1], k[2], df, t)
    \/ WaitAcquire
    \/ WaitTimeout
    \/ UpsertInsertLoad
    \/ UpsertApplicantRow
    \/ UpsertSelectOld
    \/ UpsertDeleteAbsent
    \/ UpsertApplicationRow
    \/ UpsertCommit
    \/ UpsertFail

SpecConc == Init /\ [][NextConc]_vars

(***************************************************************************)
(* compute_admission on its own: the input rows are a crowd of applicants  *)
(* to IB around its seat count, and two applicants whose applications,     *)
(* priorities, consents and totals vary freely.                            *)
(***************************************************************************)
CrowdSizes == {0} \cup ((SEATS["IB"] - 1)..(SEATS["IB"] + MaxOver))

\* applicant 10 + k applies to IB alone, with consent
Crowd(n) ==
    [k \in 1..n |-> [id |-> 10 + k, program |-> "IB", priority |-> 1, consent |-> 1,
                     total |-> 200 + (k % 3)]]

AppChoices == [program : {"IB", "PM"}, priority : {1, 2}, consent : {0, 1}]

\* an applicant's applications of one day: at most one per program
AppLists ==
    {<<>>} \cup {<<a>> : a \in AppChoices}
    \cup {<<ab[1], ab[2]>> :
            ab \in {cd \in AppChoices \X AppChoices : cd[1].program # cd[2].program}}

RowsOf(id, total, apps) ==
    [k \in 1..Len(apps) |-> [id |-> id, program |-> apps[k].program,
                             priority |-> apps[k].priority, consent |-> apps[k].consent,
                             total |-> total]]

FreeTotals == {199, 200, 202}

AllocInputs ==
    {RowsOf(1, t1, l1) \o Crowd(n) \o RowsOf(40, t2, l2) :
        <<n, t1, l1, t2, l2>> \in CrowdSizes \X FreeTotals \X AppLists \X FreeTotals \X AppLists}

InitAlloc ==
    /\ applicants = {}
    /\ applications = {}
    /\ loads = {}
    /\ load_seq = 0
    /\ con = Idle
    /\ last = NoRequest
    /\ rows \in AllocInputs
    /\ result = NoResult
    /\ read = NoRead
    /\ waiting = NoCall

\* accepted, cut = compute_admission(rows)
Allocate ==
    /\ result = NoResult
    /\ result' = compute_admission(rows)
    /\ UNCHANGED rows
    /\ UNCHANGED store_vars
    /\ UNCHANGED <<read, waiting>>

NextAlloc == Allocate

SpecAlloc == InitAlloc /\ [][NextAlloc]_vars

(***************************************************************************)
(* Properties of the reconciler and the store, under Spec                  *)
(***************************************************************************)
\* what a batch says, read off the uploaded cells
BatchIds(df) == {df.rows[k]["id"].v : k \in 1..Len(df.rows)}

LacksColumn(df) == \E c \in RequiredSet : c \notin df.columns

HasNonInteger(df) ==
    \E k \in 1..Len(df.rows) : \E c \in RequiredSet : df.rows[k][c].kind = "str"

StoredIds(apps, d, p) == {x.applicant_id : x \in {y \in apps : y.day = d /\ y.program = p}}

\* C1 Snapshot totality: once upsert_competition_list(day, program, batch) has
\* run its statements, and once it has committed, the applicant ids stored for
\* (day, program) are exactly the ids of the batch, whatever was stored before.
C1_SnapshotTotality ==
    /\ con.pc = "commit" =>
          StoredIds(con.view.applications, con.day, con.program) = BatchIds(con.df)
    /\ (last.op = "upload" /\ last.outcome = "ok") =>
          StoredIds(applications, last.day, last.program) = BatchIds(last.df)

\* C1 witness: an upload about to commit that found stale ids and brought new ones
C1_Witness ==
    /\ con.pc = "commit"
    /\ con.old_ids \ BatchIds(con.df) # {}
    /\ BatchIds(con.df) \ con.old_ids # {}

\* C1 witness of the empty batch over a stored list is part of the same check
C1_WitnessEmpty ==
    /\ last.op = "upload" /\ last.outcome = "ok" /\ last.df.rows = <<>>
    /\ applications # {}

\* C2 Failure atomicity: when upsert_competition_list fails after its transaction
\* began, all tables (and the id counter of loads) are as before the call, and the
\* caller gets the error.
C2_FailureAtomicity ==
    [][(con.pc \in UploadPositions /\ con'.pc = "idle" /\ last'.outcome # "ok")
          => /\ last'.outcome = "StoreError"
             /\ applicants' = applicants
             /\ applications' = applications
             /\ loads' = loads
             /\ load_seq' = load_seq]_vars

\* C2 witness: a failed upload of a non-empty batch over a non-empty store
C2_Witness ==
    /\ last.op = "upload" /\ last.outcome = "StoreError"
    /\ last.df.rows # <<>>
    /\ applications # {} /\ loads # {}

\* C3 Validation precedes every write: an upload whose batch lacks a required
\* column or holds a value that is no integer returns a validation error, and the
\* step in which it returns changes no table; no transaction was begun for it.
C3_ValidationBeforeWrite ==
    [][(last' # last /\ last'.op = "upload" /\ (LacksColumn(last'.df) \/ HasNonInteger(last'.df)))
          => /\ last'.outcome = "ValueError"
             /\ con.pc = "idle" /\ con' = con
             /\ <<applicants, applications, loads, load_seq>>' =
                  <<applicants, applications, loads, load_seq>>]_vars

\* C3 witness: a batch with a non-integer cell was rejected over a non-empty store
C3_Witness ==
    /\ last.op = "upload" /\ last.outcome = "ValueError"
    /\ HasNonInteger(last.df)
    /\ applications # {}

\* application rows without their timestamp
NoTime(apps) ==
    {[day |-> x.day, program |-> x.program, applicant_id |-> x.applicant_id,
      consent |-> x.consent, priority |-> x.priority] : x \in apps}

\* the commit of an upload that repeats the upload committed just before it
SecondCommit == con.pc = "commit" /\ con.again /\ last'.outcome = "ok"

\* C4 as claimed: the second of two identical uploads in a row leaves the
\* store exactly as the first left it.
C4_IdempotentStore ==
    [][SecondCommit =>
          /\ applicants' = applicants
          /\ applications' = applications
          /\ loads' = loads]_vars

\* C4 amended: the second of two identical uploads in a row leaves applicants as
\* they were and the application rows as they were apart from loaded_at, which
\* becomes the second call's time on the rows of (day, program); loads gains
\* exactly one entry, that of the second call.
C4_IdempotentUpToLog ==
    [][SecondCommit =>
          /\ applicants' = applicants
          /\ NoTime(applications') = NoTime(applications)
          /\ \A x \in applications' :
                IF x.day = con.day /\ x.program = con.program
                THEN x.loaded_at = con.now
                ELSE x \in applications
          /\ loads \subseteq loads'
          /\ loads' \ loads = {[id |-> load_seq + 1, day |-> con.day,
                                program |-> con.program, loaded_at |-> con.now]}]_vars

\* C4 witness: a repeated upload of a non-empty batch has committed at a later time
C4_Witness ==
    /\ last.op = "upload" /\ last.outcome = "ok" /\ last.again
    /\ last.df.rows # <<>>
    /\ \E x, y \in loads : x.loaded_at < y.loaded_at

\* C10 Referential integrity: every committed row of applications, and every
\* row of applications a transaction sees, has its applicant in applicants.
Referenced(apps, apcs) == \A x \in apps : \E a \in apcs : a.id = x.applicant_id

C10_ReferentialIntegrity ==
    /\ Referenced(applications, applicants)
    /\ con.pc # "idle" => Referenced(con.view.applications, con.view.applicants)

\* C10 witness: rows are stored after a clear that failed
C10_Witness ==
    /\ last.op = "clear" /\ last.outcome = "StoreError"
    /\ applications # {}

(***************************************************************************)
(* Properties of compute_admission, under SpecAlloc                        *)
(***************************************************************************)
Returned_ok == result.status = "ok"

Admitted(p) == {result.accepted[p][k] : k \in 1..Len(result.accepted[p])}

\* the applications in the input, as the claims speak of them
InputApplicants == {rows[k].id : k \in 1..Len(rows)}

HasConsentingApplication(a, p) ==
    \E k \in 1..Len(rows) : rows[k].id = a /\ rows[k].program = p /\ rows[k].consent = 1

PriorityFor(a, p) ==
    rows[CHOOSE k \in 1..Len(rows) :
            rows[k].id = a /\ rows[k].program = p /\ rows[k].consent = 1].priority

TotalOf(a) == rows[CHOOSE k \in 1..Len(rows) : rows[k].id = a].total

\* C5 Allocation capacity bound: no program is assigned more applicants than it
\* has seats.
C5_CapacityBound ==
    Returned_ok => \A p \in ProgramSet : Len(result.accepted[p]) <= SEATS[p]

\* C5 witness: IB is full and a consenting applicant to IB is left out of it
C5_Witness ==
    /\ Returned_ok
    /\ Len(result.accepted["IB"]) = SEATS["IB"]
    /\ \E a \in InputApplicants : HasConsentingApplication(a, "IB") /\ a \notin Admitted("IB")

\* C6 Allocation exclusivity: no applicant id is in the lists of two programs,
\* and none is twice in one list.
C6_Exclusivity ==
    Returned_ok =>
        \A p, q \in ProgramSet :
            \A i \in 1..Len(result.accepted[p]), j \in 1..Len(result.accepted[q]) :
                result.accepted[p][i] = result.accepted[q][j] => (p = q /\ i = j)

\* C6 witness: an applicant with consenting applications to two programs that
\* both had a free seat is admitted
C6_Witness ==
    /\ Returned_ok
    /\ HasConsentingApplication(1, "IB") /\ HasConsentingApplication(1, "PM")
    /\ Len(result.accepted["IB"]) < SEATS["IB"]
    /\ 1 \in Admitted("IB") \cup Admitted("PM")

\* C7 Cutoff consistency: a program that is full has as cutoff the least total
\* among its admitted applicants; a program that is not full has no cutoff.
C7_CutoffConsistency ==
    Returned_ok =>
        \A p \in ProgramSet :
            IF Len(result.accepted[p]) = SEATS[p]
            THEN /\ result.cut[p] # None
                 /\ \E a \in Admitted(p) : TotalOf(a) = result.cut[p].v
                 /\ \A a \in Admitted(p) : TotalOf(a) >= result.cut[p].v
            ELSE Len(result.accepted[p]) < SEATS[p] /\ result.cut[p] = None

\* C7 witness: IB is full with applicants of different totals
C7_Witness ==
    /\ Returned_ok
    /\ Len(result.accepted["IB"]) = SEATS["IB"]
    /\ result.cut["IB"] # None
    /\ \E a \in Admitted("IB") : TotalOf(a) > result.cut["IB"].v
    /\ Len(result.accepted["PM"]) < SEATS["PM"] /\ Len(result.accepted["PM"]) > 0

\* the input without its applications of consent 0
WithConsent == SelectSeq(rows, LAMBDA r : r.consent = 1)

\* C8 Consent exclusion: an applicant is admitted only to a program for which
\* the applicant has an application with consent 1, and the result is the one
\* the consenting applications alone give.
C8_ConsentExclusion ==
    Returned_ok =>
        /\ \A p \in ProgramSet : \A a \in Admitted(p) : HasConsentingApplication(a, p)
        /\ result = compute_admission(WithConsent)

\* C8 witness: applicant 1, ahead of the whole crowd by score, applied to IB
\* without consent only, IB is oversubscribed, and 1 is admitted nowhere
C8_Witness ==
    /\ Returned_ok
    /\ \E k \in 1..Len(rows) : rows[k].id = 1 /\ rows[k].program = "IB" /\ rows[k].consent = 0
    /\ TotalOf(1) = 202
    /\ \A k \in 1..Len(rows) : rows[k].id = 1 => rows[k].consent = 0
    /\ Len(rows) > SEATS["IB"] + 1
    /\ \A p \in ProgramSet : 1 \notin Admitted(p)

\* the processing order: higher total first, then smaller id
Precedes(a, b) == TotalOf(a) > TotalOf(b) \/ (TotalOf(a) = TotalOf(b) /\ a < b)

DistinctPriorities ==
    \A j, k \in 1..Len(rows) :
        (j # k /\ rows[j].id = rows[k].id) => rows[j].priority # rows[k].priority

AssignedTo(a, p) == a \in Admitted(p)

Unassigned(a) == \A p \in ProgramSet : a \notin Admitted(p)

\* C9 First free seat in score order: with every applicant's priorities
\* distinct, if a has a consenting application to P and is unassigned, or is
\* assigned to a program a ranks after P, then P is full and everyone admitted
\* to P precedes a in the processing order.
C9_FirstFreeSeat ==
    (Returned_ok /\ DistinctPriorities) =>
        \A a \in InputApplicants : \A p \in ProgramSet :
            (/\ HasConsentingApplication(a, p)
             /\ \/ Unassigned(a)
                \/ \E q \in ProgramSet :
                      /\ AssignedTo(a, q) /\ HasConsentingApplication(a, q)
                      /\ PriorityFor(a, q) > PriorityFor(a, p))
            => /\ Len(result.accepted[p]) = SEATS[p]
               /\ \A b \in Admitted(p) : Precedes(b, a)

\* C9 witness: applicant 40 ranks IB first and PM second, finds IB full and is
\* admitted to PM, while applicant 1, who applied to IB alone, is unassigned
C9_Witness ==
    /\ Returned_ok /\ DistinctPriorities
    /\ HasConsentingApplication(40, "IB") /\ HasConsentingApplication(40, "PM")
    /\ PriorityFor(40, "IB") < PriorityFor(40, "PM")
    /\ AssignedTo(40, "PM")
    /\ HasConsentingApplication(1, "IB") /\ Unassigned(1)

(***************************************************************************)
(* Frame properties of the reconciler and the log, under Spec              *)
(***************************************************************************)
\* the step in which an upload commits, or fails and rolls back
UploadCommits == con.pc = "commit" /\ con'.pc = "idle" /\ last'.outcome = "ok"

UploadFails == con.pc \in UploadPositions /\ con'.pc = "idle" /\ last'.outcome # "ok"

HasApplication(apps, a) == \E x \in apps : x.applicant_id = a

\* C12 Applicant persistence: no step of upsert_competition_list removes a row
\* of applicants or changes the scores of an applicant that is not in the batch;
\* an id the batch omits loses its application row of (day, program) and keeps
\* its applicant row as it was.
C12_ApplicantPersistence ==
    [][con.pc \in UploadPositions =>
          /\ \A a \in applicants :
                /\ \E b \in applicants' : b.id = a.id
                /\ a.id \notin BatchIds(con.df) => a \in applicants'
          /\ UploadCommits =>
                \A i \in con.old_ids \ BatchIds(con.df) :
                    /\ ~\E x \in applications' :
                          x.day = con.day /\ x.program = con.program /\ x.applicant_id = i
                    /\ \A a \in applicants : a.id = i => a \in applicants']_vars

\* C12 witness: after a committed upload an applicant is stored that has no
\* application left
C12_Witness ==
    /\ last.op = "upload" /\ last.outcome = "ok"
    /\ \E a \in applicants : ~HasApplication(applications, a.id)

\* C14 Unknown program codes are rejected: every stored application row has
\* a program of the configured map.
C14_ProgramsConfigured ==
    \A x \in applications : x.program \in ProgramSet

\* C18 Upload log is append-only: no step of the system removes or changes an
\* entry of loads.
C18_LogNeverShrinks ==
    [][loads \subseteq loads']_vars

\* C20 Key isolation: the commit of an upload for (day, program) leaves every
\* application row of another day or another program as it was, and adds none.
OtherKeys(apps, d, p) == {x \in apps : x.day # d \/ x.program # p}

C20_KeyIsolation ==
    [][UploadCommits =>
          OtherKeys(applications', con.day, con.program)
            = OtherKeys(applications, con.day, con.program)]_vars

\* C20 witness: an upload committed over rows of the same applicant under
\* another program of the same day
C20_Witness ==
    /\ last.op = "upload" /\ last.outcome = "ok"
    /\ \E x, y \in applications :
          /\ x.day = last.day /\ x.program = last.program
          /\ y.day = last.day /\ y.program # last.program
          /\ x.applicant_id = y.applicant_id

(***************************************************************************)
(* Properties of the reads, under SpecRead                                 *)
(***************************************************************************)
Tables == <<applicants, applications, loads, load_seq>>

ScoresOf(x) == <<x.phys, x.rus, x.math, x.indiv, x.total>>

\* the last row of the batch rs that carries id
LastRowOf(rs, id) ==
    rs[CHOOSE k \in 1..Len(rs) :
          rs[k].id = id /\ \A j \in 1..Len(rs) : rs[j].id = id => j <= k]

ClearCommits == con.pc = "clear_commit" /\ con'.pc = "idle" /\ last'.outcome = "ok"

LastUploadRows == _normalize_df(last.df).rows

\* a read taken after the last committed upload shows the scores of its batch
ReadShowsLastUpload ==
    (last.op = "upload" /\ last.outcome = "ok") =>
        /\ read.op = "list" =>
              \A k \in 1..Len(read.list) :
                  read.list[k].id \in NewIds(LastUploadRows) =>
                      ScoresOf(read.list[k])
                        = ScoresOf(LastRowOf(LastUploadRows, read.list[k].id))
        /\ read.op = "admission" =>
              \A k \in 1..Len(rows) :
                  rows[k].id \in NewIds(LastUploadRows) =>
                      rows[k].total = LastRowOf(LastUploadRows, rows[k].id).total

\* C11 Score globality: a committed upload stores, for every id of its batch, the
\* scores of the batch's last row of that id; stored scores appear or change
\* only by the commit of an upload whose batch has the id, and disappear only
\* by the commit of /clear; and a read of the applicant through any program and
\* day (query_program_list, the total of compute_admission_from_db) taken after
\* the commit returns the scores of that batch.
C11_ScoreGlobality ==
    [][/\ UploadCommits =>
             \A id \in NewIds(con.rows) :
                 \E a \in applicants' :
                     a.id = id /\ ScoresOf(a) = ScoresOf(LastRowOf(con.rows, id))
       /\ \A a \in applicants' \ applicants : UploadCommits /\ a.id \in NewIds(con.rows)
       /\ \A a \in applicants \ applicants' :
             (UploadCommits /\ a.id \in NewIds(con.rows)) \/ ClearCommits
       /\ ReadShowsLastUpload']_vars

\* C11 witness: after an upload committed, the list of another program of that
\* day is read and has a row of an applicant of the batch
C11_Witness ==
    /\ last.op = "upload" /\ last.outcome = "ok"
    /\ read.op = "list" /\ read.program # last.program /\ read.day = last.day
    /\ \E k \in 1..Len(read.list) : read.list[k].id \in NewIds(LastUploadRows)

\* C13 No-data is distinguishable: what compute_admission_from_db returns for a
\* day that has applications differs from what it returns for no rows at all.
C13_NoDataDistinct ==
    (read.op = "admission" /\ rows # <<>>) => result # compute_admission(<<>>)

\* the store the open upload will publish when it commits
PostUpload ==
    upsert_competition_list(Committed, con.day, con.program, con.rows, con.now)

\* the value of the read is one the query may return on store s
Observable(s) ==
    \/ read.op = "admission" /\ rows \in AdmissionRows(s, read.day)
    \/ /\ read.op = "list"
       /\ read.list \in query_program_list(s, read.program, read.day, read.consent, read.sort)
    \/ /\ read.op = "cascade"
       /\ read.list \in query_all_applicants_with_cascade(s, read.day, CascadeLimit)

\* the read raised, and returned no row and no result
ReturnedNothing == read.list = <<>> /\ rows = <<>> /\ result = NoResult

\* C16 All-or-nothing visibility to readers: what compute_admission_from_db,
\* query_program_list or query_all_applicants_with_cascade returns while an
\* upload transaction is open is a value of the query on the store before the
\* upload or on the store after all of it; a read that finds the database
\* locked returns nothing at all.
C16_AllOrNothingVisibility ==
    (con.pc \in UploadPositions /\ read.op \in {"admission", "list", "cascade"}) =>
        IF read.status = "OperationalError"
        THEN ReturnedNothing
        ELSE Observable(Committed) \/ Observable(PostUpload)

\* C16 witness: a list is read when the upload has run all its statements and not
\* committed, and it is not a list of the store the upload will publish
C16_Witness ==
    /\ con.pc = "commit"
    /\ read.op = "list" /\ read.status = "ok"
    /\ ~Observable(PostUpload)
    /\ con.view # Committed

\* C17 Allocation is pure and deterministic: compute_admission_from_db changes
\* no table, and when each applicant's priorities are distinct the result it
\* returns is the result of compute_admission on the day's rows in every order
\* (a call that finds the database locked returns none).
C17_PureDeterministic ==
    [][(read'.op = "admission" /\ read' # read) =>
          /\ UNCHANGED Tables
          /\ read'.status = "OperationalError" => ReturnedNothing'
          /\ (read'.status # "OperationalError" /\ DistinctPriorities') =>
                \A rs \in AdmissionRows(Committed', read'.day) :
                    compute_admission(rs) = result']_vars

\* C17 witness: an allocation over rows in which an applicant has two consenting
\* applications of distinct priorities, returned in an order that is not the
\* order of the priorities
C17_Witness ==
    /\ read.op = "admission" /\ result.status = "ok"
    /\ DistinctPriorities
    /\ \E j, k \in 1..Len(rows) :
          /\ j < k /\ rows[j].id = rows[k].id
          /\ rows[j].consent = 1 /\ rows[k].consent = 1
          /\ rows[j].priority > rows[k].priority

\* the admitted of P whose consenting application to P has priority k
AdmittedWithPriority(p, k) ==
    {i \in 1..Len(result.accepted[p]) :
        \E j \in 1..Len(rows) :
            /\ rows[j].id = result.accepted[p][i] /\ rows[j].program = p
            /\ rows[j].consent = 1 /\ rows[j].priority = k}

\* C19 Per-priority admitted counts: on a store that no commit changes meanwhile
\* and that answers each SELECT, _stats_for_day returns without error, and accepted_pr_counts[(P, k)] is the
\* number of applicants in the assignment list of P whose consenting application
\* to P has priority k.
C19_AdmittedCounts ==
    (read.op = "stats" /\ read.pc = "returned" /\ read.steady
       /\ read.status # "OperationalError") =>
        /\ read.status = "ok"
        /\ \A g \in ProgramSet \X Priorities :
              read.counts[g] = Cardinality(AdmittedWithPriority(g[1], g[2]))

(***************************************************************************)
(* Two calls at once, under SpecConc                                       *)
(***************************************************************************)
\* C15 Same-key uploads are serialized: the commit of an upload call leaves the
\* store as the call's statements leave it when run without interruption on the
\* store the commit found, so that calls made at once have the effect of their
\* runs one after the other in the order of their commits; the application ids
\* of (day, program) are then the ids of the committed call's batch.
C15_Serialized ==
    [][UploadCommits =>
          /\ Committed'
               = upsert_competition_list(Committed, con.day, con.program, con.rows, con.now)
          /\ SelectIds(Committed', con.day, con.program) = NewIds(con.rows)]_vars

\* C15 witness: a call that waited for the call before it on the same key has
\* committed after it, and an id of the earlier call's batch that its own batch
\* omits is stored as an applicant and has no application under the key
C15_Witness ==
    /\ con.pc = "idle" /\ waiting.pc = "acquired"
    /\ last.op = "upload" /\ last.outcome = "ok"
    /\ last.day = waiting.day /\ last.program = waiting.program /\ last.df = waiting.df
    /\ load_seq = waiting.seen.seq + 2
    /\ \E e \in loads :
          e.id = load_seq - 1 /\ e.day = waiting.day /\ e.program = waiting.program
    /\ \E a \in applicants :
          /\ a.id \notin NewIds(waiting.rows)
          /\ a.id \notin SelectIds(waiting.seen, waiting.day, waiting.program)
          /\ a.id \notin SelectIds(Committed, waiting.day, waiting.program)

====
